---- MODULE Spec2Model ----
(***************************************************************************)
(* ovpn-dco: the per-peer crypto state (net/ovpn-dco/crypto.c) and the     *)
(* peer lifecycle with its keepalive timers (net/ovpn-dco/peer.c).         *)
(*                                                                         *)
(* The crypto state is driven by one control-path writer (the holder of    *)
(* cs->mutex) whose position inside reset / delete / release is w_pc, and  *)
(* by NReaders data-path readers running ovpn_crypto_encap_overhead inside *)
(* an RCU read-side section.  call_rcu is modelled by the set of readers   *)
(* that were inside a read-side section when the callback was queued: the  *)
(* callback may run once all of them have left.                            *)
(***************************************************************************)
EXTENDS Integers, FiniteSets, Sequences, TLC

\* ---------------------------------------------------------------- bounds
NReaders == 1
MaxKeys == 2
NGetters == 2
MaxPeriod == 1
MaxRefs == 5
MaxQueue == 2

\* ------------------------------------------------------------ vocabulary
NULL == 0

Readers == 1..NReaders
KeyIds == 1..MaxKeys
\* pkr->remote_peer_id; 0 stands for a key slot's field not yet written
PeerIds == {1}

\* enum ovpn_key_slot as passed in ovpn_peer_key_reset; "INVALID" is any
\* value that is neither PRIMARY nor SECONDARY (the switch's default arm).
Slots == {"PRIMARY", "SECONDARY", "INVALID"}
\* enum ovpn_crypto_families
Families == {"UNDEF", "AEAD", "CBC_HMAC"}
\* kc->cipher_alg; "NONE" is any other value (the switch's default arm).
CipherAlgs == {"AES_GCM", "AES_CBC", "NONE"}
\* the dispatch tables a crypto state can be bound to; "chm_ops" exists in
\* the source only inside a comment and is never selected.
OpsTables == {"NULL", "aead_ops", "chm_ops"}

VARIABLES
    \* struct ovpn_crypto_state
    primary, secondary, ops,
    \* every key slot object ever allocated: id -> fields and lifetime
    ks,
    \* call_rcu bookkeeping: id -> readers the grace period still waits for
    rcu_wait,
    \* the control-path writer: position, arguments, locals, return value
    w_pc, w_op, w_pkr, w_new, w_old, w_ret,
    \* state of the crypto state when the writer's current call began
    w_snap,
    \* the data-path readers (ovpn_crypto_encap_overhead)
    r_pc, r_ks, r_ret

cryptoVars == <<primary, secondary, ops, ks, rcu_wait, w_pc, w_op, w_pkr,
                w_new, w_old, w_ret, w_snap, r_pc, r_ks, r_ret>>

VARIABLES
    \* struct ovpn_struct: the tunnel's pointer to its peer (NULL or ThePeer)
    tun_peer,
    \* struct ovpn_peer: refcount, halt; its lifetime ("live", "rcu" once
    \* call_rcu has queued the release, "released" once it has run), the
    \* read-side sections the grace period still waits for, and how often
    \* the release routine has run
    refcount, halt, p_state, p_wait, release_runs,
    \* the data-path callers of ovpn_peer_get: position and local pointer
    g_pc, g_peer,
    \* the keepalive timers: period, pending, position of the callback
    t_period, t_armed, h_pc,
    \* the control path inside ovpn_peer_set_keepalive: position,
    \* arguments, rcdelta of the ovpn_peer_timer_schedule in progress
    c_pc, c_args, c_rcdelta,
    \* bookkeeping: references held on behalf of timers, references dropped
    \* by ovpn_peer_delete, and for the set_keepalive call in progress or
    \* last completed: whether no timer fired since the call before it
    \* began (ka_clean), whether it repeats that call's values with no
    \* firing in between (ka_same), its net change of refcount (ka_delta),
    \* and the change its arming and disarming of timers calls for
    \* (ka_expect)
    timer_refs, d_puts, ka_clean, ka_same, ka_delta, ka_expect

peerVars == <<tun_peer, refcount, halt, p_state, p_wait, release_runs,
              g_pc, g_peer, t_period, t_armed, h_pc, c_pc, c_args, c_rcdelta,
              timer_refs, d_puts, ka_clean, ka_same, ka_delta, ka_expect>>

VARIABLES
    \* a call of ovpn_peer_new_with_sockaddr: position, the local peer
    \* ("none" before ovpn_peer_new has returned), the step of ovpn_peer_new
    \* that failed, what the new peer object holds, the value returned
    n_pc, n_peer, n_fail, n_allocs, n_ret

newVars == <<n_pc, n_peer, n_fail, n_allocs, n_ret>>

VARIABLES
    \* peer->tx_ring, peer->rx_ring: packets queued; the encrypt and decrypt
    \* workers: "idle" or "running"; the rings a worker has taken a packet
    \* from
    rings, wk_pc, wk_popped

queueVars == <<rings, wk_pc, wk_popped>>

vars == <<cryptoVars, peerVars, newVars, queueVars>>

\* ------------------------------------------------------ pure functions

\* ovpn_keys_familiy_get, with its two cases exchanged
ovpn_keys_familiy_get_swapped(cipher_alg) ==
    CASE cipher_alg = "AES_GCM" -> "CBC_HMAC"
      [] cipher_alg = "AES_CBC" -> "AEAD"
      [] OTHER -> "UNDEF"

ovpn_keys_familiy_get(cipher_alg) ==
    CASE cipher_alg = "AES_GCM" -> "AEAD"
      [] cipher_alg = "AES_CBC" -> "CBC_HMAC"
      [] OTHER -> "UNDEF"

ovpn_crypto_select_family(crypto_family) ==
    CASE crypto_family = "UNDEF" -> "NULL"
      [] crypto_family = "AEAD" -> "aead_ops"
      [] OTHER -> "NULL"

\* the family a dispatch table implements
FamilyOf(o) ==
    CASE o = "aead_ops" -> "AEAD"
      [] o = "chm_ops" -> "CBC_HMAC"
      [] OTHER -> "UNDEF"

\* ops->new of the AEAD family: the algorithms it accepts
AeadAccepts(cipher_alg) == cipher_alg = "AES_GCM"

FreeKs == [state |-> "free", refcount |-> 0, ops |-> "NULL",
           cipher_alg |-> "NONE", remote_peer_id |-> 0]

InSection(r) == r_pc[r] # "idle"
ReadersInSection == {r \in Readers : InSection(r)}

\* ovpn_crypto_key_slot_release that runs the destructor without a grace
\* period
ovpn_crypto_key_slot_release_now(id) == {}

\* ovpn_crypto_key_slot_release: call_rcu(&ks->rcu, ovpn_ks_destroy_rcu);
\* the value is the set of readers the callback has to wait for.
ovpn_crypto_key_slot_release(id) == ReadersInSection

\* ovpn_crypto_key_slot_put: kref_put(&ks->refcount, ..._release)
KsAfterPut(k, id) ==
    [k EXCEPT ![id].refcount = @ - 1,
              ![id].state = IF k[id].refcount = 1 THEN "rcu" ELSE @]

WaitAfterPut(k, id) ==
    IF k[id].refcount = 1
    THEN [rcu_wait EXCEPT ![id] = ovpn_crypto_key_slot_release(id)]
    ELSE rcu_wait

\* what the crypto state held when the writer's call began
Snapshot(p, s, o) == [primary |-> p, secondary |-> s, ops |-> o]
NoSnapshot == Snapshot(NULL, NULL, "NULL")

\* struct ovpn_peer_key_reset; fields a call does not read are left at rest
Pkr(slot, fam, alg, rpid) ==
    [slot |-> slot, crypto_family |-> fam, cipher_alg |-> alg,
     remote_peer_id |-> rpid]
NoPkr == Pkr("INVALID", "UNDEF", "NONE", 0)

\* a key slot object after ops->destroy: its memory is gone
DestroyedKs == [state |-> "destroyed", refcount |-> 0, ops |-> "NULL",
                cipher_alg |-> "NONE", remote_peer_id |-> 0]

\* ------------------------------------------------------------------ Init

InitCrypto ==
    /\ primary = NULL
    /\ secondary = NULL
    /\ ops = "NULL"
    /\ ks = [id \in KeyIds |-> FreeKs]
    /\ rcu_wait = [id \in KeyIds |-> {}]
    /\ w_pc = "idle"
    /\ w_op = "none"
    /\ w_pkr = NoPkr
    /\ w_new = NULL
    /\ w_old = NULL
    /\ w_ret = "OK"
    /\ w_snap = NoSnapshot
    /\ r_pc = [r \in Readers |-> "idle"]
    /\ r_ks = [r \in Readers |-> NULL]
    /\ r_ret = [r \in Readers |-> "none"]

ThePeer == 1
Getters == 1..NGetters
\* the control path, as a party to read-side sections
Ctl == 0
Timers == {"xmit", "expire"}
Periods == 0..MaxPeriod

\* ovpn_peer_new followed by the tunnel taking the peer: refcount 1 owed to
\* the tunnel, halt false, both timers initialised and not pending.
InitPeer ==
    /\ tun_peer = ThePeer
    /\ refcount = 1
    /\ halt = FALSE
    /\ p_state = "live"
    /\ p_wait = {}
    /\ release_runs = 0
    /\ g_pc = [g \in Getters |-> "idle"]
    /\ g_peer = [g \in Getters |-> NULL]
    /\ t_period = [t \in Timers |-> 0]
    /\ t_armed = [t \in Timers |-> FALSE]
    /\ h_pc = [t \in Timers |-> "idle"]
    /\ c_pc = "idle"
    /\ c_args = <<0, 0>>
    /\ c_rcdelta = 0
    /\ timer_refs = 0
    /\ d_puts = 0
    /\ ka_clean = FALSE
    /\ ka_same = FALSE
    /\ ka_delta = 0
    /\ ka_expect = 0

\* no ovpn_peer_new_with_sockaddr call has been made
InitNew ==
    /\ n_pc = "idle"
    /\ n_peer = "none"
    /\ n_fail = "none"
    /\ n_allocs = {}
    /\ n_ret = "none"

Rings == {"tx", "rx"}

\* ovpn_peer_new, lines 53-66: both rings empty, no work queued
InitQueue ==
    /\ rings = [q \in Rings |-> 0]
    /\ wk_pc = [q \in Rings |-> "idle"]
    /\ wk_popped = {}

Init == InitCrypto /\ InitPeer /\ InitNew /\ InitQueue

\* --------------------------------------------------- control-path writer

WriterCall(op, pkr) ==
    /\ w_pc = "idle"
    /\ w_op' = op
    /\ w_pkr' = pkr
    /\ w_snap' = Snapshot(primary, secondary, ops)

ReaderVarsUnchanged ==
    UNCHANGED <<r_pc, r_ks, r_ret, peerVars, newVars, queueVars>>

\* ovpn_crypto_state_select_family that stores new_ops before checking it
ovpn_crypto_state_select_family_store_first ==
    \E fam \in Families :
        LET new_ops == ovpn_crypto_select_family(fam) IN
        /\ WriterCall("select_family", Pkr("INVALID", fam, "NONE", 0))
        /\ ops' = new_ops
        /\ w_ret' = IF new_ops = "NULL" THEN "EOPNOTSUPP"
                    ELSE IF ops # "NULL" /\ ops # new_ops THEN "EINVAL"
                    ELSE "OK"
        /\ UNCHANGED <<primary, secondary, ks, rcu_wait, w_pc, w_new, w_old>>
        /\ ReaderVarsUnchanged

ovpn_crypto_state_select_family ==
    \E fam \in Families :
        LET new_ops == ovpn_crypto_select_family(fam) IN
        /\ WriterCall("select_family", Pkr("INVALID", fam, "NONE", 0))
        /\ IF new_ops = "NULL"
           THEN w_ret' = "EOPNOTSUPP" /\ ops' = ops
           ELSE IF ops # "NULL" /\ ops # new_ops
           THEN w_ret' = "EINVAL" /\ ops' = ops
           ELSE w_ret' = "OK" /\ ops' = new_ops
        /\ UNCHANGED <<primary, secondary, ks, rcu_wait, w_pc, w_new, w_old>>
        /\ ReaderVarsUnchanged

\* ovpn_ks_new -> ops->new(kc): the first unused key slot object, built by
\* the bound family with refcount 1; remote_peer_id is not yet written.
FirstFree == CHOOSE id \in KeyIds :
                 /\ ks[id].state = "free"
                 /\ \A j \in KeyIds : ks[j].state = "free" => id <= j

ovpn_ks_new(o, cipher_alg) ==
    [state |-> "live", refcount |-> 1, ops |-> o,
     cipher_alg |-> cipher_alg, remote_peer_id |-> 0]

\* reset, lines 89-91: build the new key slot or bail out.  A call made
\* before any family is bound dereferences the null cs->ops.  ops->new fails
\* on an algorithm the family does not implement, or for want of memory
\* (nomem); a failing call returns before it reads pkr->slot and
\* pkr->remote_peer_id, so one value of each stands for all.
ResetNew ==
    \E slot \in Slots, alg \in CipherAlgs, rpid \in PeerIds, nomem \in BOOLEAN :
        LET fails == nomem \/ ~AeadAccepts(alg) IN
        /\ (fails \/ ops = "NULL") => (slot = "PRIMARY" /\ rpid = 1)
        /\ ~AeadAccepts(alg) => ~nomem
        /\ WriterCall("reset", Pkr(slot, "UNDEF", alg, rpid))
        /\ IF ops = "NULL"
           THEN /\ w_pc' = "oops"
                /\ UNCHANGED <<ks, w_new, w_ret>>
           ELSE IF fails
           THEN /\ w_pc' = "idle"
                /\ w_ret' = "ERR_NEW"
                /\ UNCHANGED <<ks, w_new>>
           ELSE /\ \E id \in KeyIds : ks[id].state = "free"
                /\ w_new' = FirstFree
                /\ ks' = [ks EXCEPT ![FirstFree] = ovpn_ks_new(ops, alg)]
                /\ w_pc' = "reset_stamp"
                /\ UNCHANGED w_ret
        /\ w_old' = NULL
        /\ UNCHANGED <<primary, secondary, ops, rcu_wait>>
        /\ ReaderVarsUnchanged

\* reset with line 93 left out: the new key slot is published without its
\* remote_peer_id
ResetStampSkipped ==
    /\ w_pc = "reset_stamp"
    /\ w_pc' = "reset_swap"
    /\ UNCHANGED <<primary, secondary, ops, ks, rcu_wait, w_op, w_pkr, w_new,
                   w_old, w_ret, w_snap>>
    /\ ReaderVarsUnchanged

\* reset, line 93
ResetStamp ==
    /\ w_pc = "reset_stamp"
    /\ ks' = [ks EXCEPT ![w_new].remote_peer_id = w_pkr.remote_peer_id]
    /\ w_pc' = "reset_swap"
    /\ UNCHANGED <<primary, secondary, ops, rcu_wait, w_op, w_pkr, w_new,
                   w_old, w_ret, w_snap>>
    /\ ReaderVarsUnchanged

\* reset's switch with the replace done in two steps: the slot is first
\* read and cleared, and the new key slot is stored by a second step
ResetSwapTwoSteps ==
    /\ w_pc = "reset_swap"
    /\ CASE w_pkr.slot = "PRIMARY" ->
              IF w_old = NULL /\ primary # NULL
              THEN /\ w_old' = primary
                   /\ primary' = NULL
                   /\ UNCHANGED <<secondary, w_pc>>
              ELSE /\ primary' = w_new
                   /\ w_pc' = "reset_put"
                   /\ UNCHANGED <<secondary, w_old>>
         [] w_pkr.slot = "SECONDARY" ->
              IF w_old = NULL /\ secondary # NULL
              THEN /\ w_old' = secondary
                   /\ secondary' = NULL
                   /\ UNCHANGED <<primary, w_pc>>
              ELSE /\ secondary' = w_new
                   /\ w_pc' = "reset_put"
                   /\ UNCHANGED <<primary, w_old>>
         [] OTHER ->
              /\ w_pc' = "reset_free"
              /\ UNCHANGED <<primary, secondary, w_old>>
    /\ UNCHANGED <<ops, ks, rcu_wait, w_op, w_pkr, w_new, w_ret, w_snap>>
    /\ ReaderVarsUnchanged

\* reset's switch with the break of the SECONDARY case missing: the new key
\* slot is installed and control falls through to the default case
ResetSwapFallsThrough ==
    /\ w_pc = "reset_swap"
    /\ CASE w_pkr.slot = "PRIMARY" ->
              /\ w_old' = primary
              /\ primary' = w_new
              /\ w_pc' = "reset_put"
              /\ UNCHANGED secondary
         [] w_pkr.slot = "SECONDARY" ->
              /\ w_old' = secondary
              /\ secondary' = w_new
              /\ w_pc' = "reset_free"
              /\ UNCHANGED primary
         [] OTHER ->
              /\ w_pc' = "reset_free"
              /\ UNCHANGED <<primary, secondary, w_old>>
    /\ UNCHANGED <<ops, ks, rcu_wait, w_op, w_pkr, w_new, w_ret, w_snap>>
    /\ ReaderVarsUnchanged

\* reset, lines 95-106: rcu_replace_pointer publishes new and yields old in
\* one atomic step.
ResetSwap ==
    /\ w_pc = "reset_swap"
    /\ CASE w_pkr.slot = "PRIMARY" ->
              /\ w_old' = primary
              /\ primary' = w_new
              /\ w_pc' = "reset_put"
              /\ UNCHANGED secondary
         [] w_pkr.slot = "SECONDARY" ->
              /\ w_old' = secondary
              /\ secondary' = w_new
              /\ w_pc' = "reset_put"
              /\ UNCHANGED primary
         [] OTHER ->
              /\ w_pc' = "reset_free"
              /\ UNCHANGED <<primary, secondary, w_old>>
    /\ UNCHANGED <<ops, ks, rcu_wait, w_op, w_pkr, w_new, w_ret, w_snap>>
    /\ ReaderVarsUnchanged

\* reset with lines 111-112 left out: the replaced key slot is never put
ResetPutOldLeaks ==
    /\ w_pc = "reset_put"
    /\ w_ret' = "OK"
    /\ w_pc' = "idle"
    /\ w_new' = NULL
    /\ w_old' = NULL
    /\ w_snap' = NoSnapshot
    /\ UNCHANGED <<primary, secondary, ops, ks, rcu_wait, w_op, w_pkr>>
    /\ ReaderVarsUnchanged

\* reset, lines 111-114
ResetPutOld ==
    /\ w_pc = "reset_put"
    /\ IF w_old # NULL
       THEN /\ ks' = KsAfterPut(ks, w_old)
            /\ rcu_wait' = WaitAfterPut(ks, w_old)
       ELSE UNCHANGED <<ks, rcu_wait>>
    /\ w_ret' = "OK"
    /\ w_pc' = "idle"
    /\ w_new' = NULL
    /\ w_old' = NULL
    /\ w_snap' = NoSnapshot
    /\ UNCHANGED <<primary, secondary, ops, w_op, w_pkr>>
    /\ ReaderVarsUnchanged

\* reset, lines 115-117 (free_key)
ResetFreeKey ==
    /\ w_pc = "reset_free"
    /\ ks' = KsAfterPut(ks, w_new)
    /\ rcu_wait' = WaitAfterPut(ks, w_new)
    /\ w_ret' = "EINVAL"
    /\ w_pc' = "idle"
    /\ w_new' = NULL
    /\ w_old' = NULL
    /\ UNCHANGED <<primary, secondary, ops, w_op, w_pkr, w_snap>>
    /\ ReaderVarsUnchanged

\* ovpn_crypto_key_slot_delete whose SECONDARY case clears the primary slot
\* as well
DeleteSwapClearsBoth ==
    \E slot \in Slots :
        /\ WriterCall("delete", Pkr(slot, "UNDEF", "NONE", 0))
        /\ CASE slot = "PRIMARY" ->
                  /\ w_old' = primary
                  /\ primary' = NULL
                  /\ UNCHANGED secondary
             [] slot = "SECONDARY" ->
                  /\ w_old' = secondary
                  /\ secondary' = NULL
                  /\ primary' = NULL
             [] OTHER ->
                  /\ w_old' = NULL
                  /\ UNCHANGED <<primary, secondary>>
        /\ w_pc' = "delete_put"
        /\ UNCHANGED <<ops, ks, rcu_wait, w_new, w_ret>>
        /\ ReaderVarsUnchanged

\* ovpn_crypto_key_slot_delete, lines 125-139: the replace under cs->mutex
DeleteSwap ==
    \E slot \in Slots :
        /\ WriterCall("delete", Pkr(slot, "UNDEF", "NONE", 0))
        /\ CASE slot = "PRIMARY" ->
                  /\ w_old' = primary
                  /\ primary' = NULL
                  /\ UNCHANGED secondary
             [] slot = "SECONDARY" ->
                  /\ w_old' = secondary
                  /\ secondary' = NULL
                  /\ UNCHANGED primary
             [] OTHER ->
                  /\ w_old' = NULL
                  /\ UNCHANGED <<primary, secondary>>
        /\ w_pc' = "delete_put"
        /\ UNCHANGED <<ops, ks, rcu_wait, w_new, w_ret>>
        /\ ReaderVarsUnchanged

\* ovpn_crypto_key_slot_delete, lines 141-146
DeletePut ==
    /\ w_pc = "delete_put"
    /\ IF w_old # NULL
       THEN /\ ks' = KsAfterPut(ks, w_old)
            /\ rcu_wait' = WaitAfterPut(ks, w_old)
       ELSE UNCHANGED <<ks, rcu_wait>>
    /\ w_ret' = "OK"
    /\ w_pc' = "idle"
    /\ w_old' = NULL
    /\ w_snap' = NoSnapshot
    /\ UNCHANGED <<primary, secondary, ops, w_op, w_pkr, w_new>>
    /\ ReaderVarsUnchanged

\* ovpn_crypto_state_release, lines 45-49
ReleasePrimary ==
    /\ WriterCall("release", NoPkr)
    /\ IF primary # NULL
       THEN /\ primary' = NULL
            /\ ks' = KsAfterPut(ks, primary)
            /\ rcu_wait' = WaitAfterPut(ks, primary)
       ELSE UNCHANGED <<primary, ks, rcu_wait>>
    /\ w_pc' = "release_secondary"
    /\ UNCHANGED <<secondary, ops, w_new, w_old, w_ret>>
    /\ ReaderVarsUnchanged

\* ovpn_crypto_state_release, lines 51-57; the state is dead afterwards
ReleaseSecondary ==
    /\ w_pc = "release_secondary"
    /\ IF secondary # NULL
       THEN /\ secondary' = NULL
            /\ ks' = KsAfterPut(ks, secondary)
            /\ rcu_wait' = WaitAfterPut(ks, secondary)
       ELSE UNCHANGED <<secondary, ks, rcu_wait>>
    /\ w_pc' = "released"
    /\ w_snap' = NoSnapshot
    /\ UNCHANGED <<primary, ops, w_op, w_pkr, w_new, w_old, w_ret>>
    /\ ReaderVarsUnchanged

\* ------------------------------------------------------ data-path readers

WriterVarsUnchanged ==
    UNCHANGED <<primary, secondary, ops, w_pc, w_op, w_pkr, w_new, w_old,
                w_ret, w_snap, peerVars, newVars, queueVars>>

\* encap_overhead, line 65: rcu_read_lock
RdLock(r) ==
    /\ r_pc[r] = "idle"
    /\ w_pc \notin {"release_secondary", "released"}
    /\ r_pc' = [r_pc EXCEPT ![r] = "locked"]
    /\ UNCHANGED <<ks, rcu_wait, r_ks, r_ret>>
    /\ WriterVarsUnchanged

\* encap_overhead that falls back on the secondary slot when the primary
\* one is empty
RdDerefFallsBack(r) ==
    LET slot == IF primary = NULL THEN secondary ELSE primary IN
    /\ r_pc[r] = "locked"
    /\ r_ks' = [r_ks EXCEPT ![r] = slot]
    /\ IF slot = NULL
       THEN /\ r_ret' = [r_ret EXCEPT ![r] = "ENOENT"]
            /\ r_pc' = [r_pc EXCEPT ![r] = "unlock"]
       ELSE /\ r_pc' = [r_pc EXCEPT ![r] = "deref"]
            /\ UNCHANGED r_ret
    /\ UNCHANGED <<ks, rcu_wait>>
    /\ WriterVarsUnchanged

\* encap_overhead, lines 66-70: rcu_dereference(cs->primary)
RdDeref(r) ==
    /\ r_pc[r] = "locked"
    /\ r_ks' = [r_ks EXCEPT ![r] = primary]
    /\ IF primary = NULL
       THEN /\ r_ret' = [r_ret EXCEPT ![r] = "ENOENT"]
            /\ r_pc' = [r_pc EXCEPT ![r] = "unlock"]
       ELSE /\ r_pc' = [r_pc EXCEPT ![r] = "deref"]
            /\ UNCHANGED r_ret
    /\ UNCHANGED <<ks, rcu_wait>>
    /\ WriterVarsUnchanged

\* encap_overhead, line 71: ks->ops->encap_overhead(ks).  Reading a key
\* slot whose destructor has run is a use after free.
RdOverhead(r) ==
    /\ r_pc[r] = "deref"
    /\ r_ret' = [r_ret EXCEPT ![r] =
                    IF ks[r_ks[r]].state = "destroyed" THEN "use_after_free"
                    ELSE "overhead"]
    /\ r_pc' = [r_pc EXCEPT ![r] = "unlock"]
    /\ UNCHANGED <<ks, rcu_wait, r_ks>>
    /\ WriterVarsUnchanged

\* encap_overhead, lines 68 and 72: rcu_read_unlock ends the reader's
\* section, so no pending grace period waits for it any longer.
RdUnlock(r) ==
    /\ r_pc[r] = "unlock"
    /\ r_pc' = [r_pc EXCEPT ![r] = "idle"]
    /\ r_ks' = [r_ks EXCEPT ![r] = NULL]
    /\ r_ret' = [r_ret EXCEPT ![r] = "none"]
    /\ rcu_wait' = [id \in KeyIds |-> rcu_wait[id] \ {r}]
    /\ UNCHANGED ks
    /\ WriterVarsUnchanged

\* ovpn_ks_destroy_rcu: the RCU callback, run after the grace period
KsDestroyRcu(id) ==
    /\ ks[id].state = "rcu"
    /\ rcu_wait[id] = {}
    /\ ks' = [ks EXCEPT ![id] = DestroyedKs]
    /\ UNCHANGED <<rcu_wait, r_pc, r_ks, r_ret>>
    /\ WriterVarsUnchanged

NextCrypto ==
    \/ ovpn_crypto_state_select_family
    \/ ResetNew
    \/ ResetStamp
    \/ ResetSwap
    \/ ResetPutOld
    \/ ResetFreeKey
    \/ DeleteSwap
    \/ DeletePut
    \/ ReleasePrimary
    \/ ReleaseSecondary
    \/ \E r \in Readers : RdLock(r)
    \/ \E r \in Readers : RdDeref(r)
    \/ \E r \in Readers : RdOverhead(r)
    \/ \E r \in Readers : RdUnlock(r)
    \/ \E id \in KeyIds : KsDestroyRcu(id)

SpecCrypto == Init /\ [][NextCrypto]_vars

\* ------------------------------------------------- crypto state: claims

InReset == w_op = "reset" /\ w_pc \in {"reset_stamp", "reset_swap", "reset_put"}
\* the key slot the primary slot held when the reset in progress began
PrimaryAtResetStart == w_snap.primary
RotatingPrimary ==
    InReset /\ w_pkr.slot = "PRIMARY" /\ PrimaryAtResetStart # NULL
ReadsPrimary(r) == r_pc[r] = "locked" /\ r_pc'[r] # "locked"

\* C1: key rotation is atomic to readers.  A reader that reads the primary
\* slot while a reset of that slot is in progress on a slot that held K_old
\* obtains K_old or K_new, never null; and whatever a reader obtains is a key
\* slot the state still owns, never one a completed reset (or delete) has
\* already replaced and released.
C1_AtomicRotation ==
    [][\A r \in Readers :
          ReadsPrimary(r) =>
             /\ RotatingPrimary => r_ks'[r] \in {PrimaryAtResetStart, w_new}
             /\ r_ks'[r] # NULL => ks[r_ks'[r]].state = "live"]_vars

\* a reader has read the new key slot while the reset that installs it over
\* an old one has not yet returned
C1_Witness ==
    \E r \in Readers :
        /\ r_pc[r] = "deref"
        /\ w_op = "reset" /\ w_pc = "reset_put" /\ w_pkr.slot = "PRIMARY"
        /\ w_old # NULL
        /\ r_ks[r] = w_new

\* C2: no use after free of a key slot.  The destructor of a key slot runs
\* only when its reference count is zero and no reader inside a read-side
\* section holds a pointer to it, and no reader ever reads a destroyed slot.
C2_NoUseAfterFree ==
    [][/\ \A id \in KeyIds :
             (ks[id].state # "destroyed" /\ ks'[id].state = "destroyed") =>
                 /\ ks[id].state = "rcu"
                 /\ ks[id].refcount = 0
                 /\ \A r \in Readers : ~(InSection(r) /\ r_ks[r] = id)
       /\ \A r \in Readers :
             /\ r_ret'[r] # "use_after_free"
             /\ (r_pc'[r] = "deref" => ks'[r_ks'[r]].state # "destroyed")]_vars

\* one key slot has been destroyed, and a reader inside a read-side section
\* is about to read another that the state has already released: its
\* destructor is held back by that reader
C2_Witness ==
    \E id \in KeyIds, r \in Readers :
        /\ ks[id].state = "destroyed"
        /\ r_pc[r] = "deref"
        /\ ks[r_ks[r]].state = "rcu"
        /\ r \in rcu_wait[r_ks[r]]

ResetReturnedError == w_op = "reset" /\ w_pc = "idle" /\ w_ret # "OK"
UnchangedSinceCall ==
    /\ primary = w_snap.primary
    /\ secondary = w_snap.secondary
    /\ ops = w_snap.ops
    /\ primary # NULL => ks[primary].state = "live"
    /\ secondary # NULL => ks[secondary].state = "live"

\* C3: reset is all-or-nothing.  When reset has returned an error, primary,
\* secondary and ops are what they were when the call began and the key
\* slots installed then are still owned by the state (not released).
C3_ResetAllOrNothing == ResetReturnedError => UnchangedSinceCall

\* reset has returned the invalid-slot error on a state with a key installed
C3_Witness ==
    /\ ResetReturnedError
    /\ w_ret = "EINVAL"
    /\ primary # NULL

SelectFamilyReturned == w_op = "select_family" /\ w_pc = "idle"

\* C4 as stated: once a family F is bound, select_family(F) succeeds and
\* select_family(G), G # F, fails with the family-changed error (EINVAL);
\* ops stays bound to F either way.
C4_AsStated ==
    (SelectFamilyReturned /\ w_snap.ops # "NULL") =>
        /\ ops = w_snap.ops
        /\ w_ret = IF w_pkr.crypto_family = FamilyOf(w_snap.ops)
                   THEN "OK" ELSE "EINVAL"

\* C4 as amended: once a family F is bound, select_family(F) succeeds and
\* select_family(G), G # F, fails with the unsupported error (EOPNOTSUPP),
\* every family other than AEAD having no dispatch table; ops stays bound
\* to F either way.
C4_FamilyImmutable ==
    (SelectFamilyReturned /\ w_snap.ops # "NULL") =>
        /\ ops = w_snap.ops
        /\ w_ret = IF w_pkr.crypto_family = FamilyOf(w_snap.ops)
                   THEN "OK" ELSE "EOPNOTSUPP"

\* select_family(CBC_HMAC) has been refused on a state bound to AEAD
C4_Witness ==
    /\ SelectFamilyReturned
    /\ w_snap.ops = "aead_ops"
    /\ w_pkr.crypto_family = "CBC_HMAC"
    /\ w_ret = "EOPNOTSUPP"

InstalledKs == {primary, secondary} \ {NULL}

\* C5: the family of every installed key slot is the bound family, and a
\* reset whose cipher_alg maps to another family is rejected and leaves
\* primary, secondary and ops as they were.
C5_InstalledFamilyIsOps ==
    /\ \A id \in InstalledKs :
          /\ ks[id].ops = ops
          /\ ovpn_keys_familiy_get(ks[id].cipher_alg) = FamilyOf(ops)
    /\ (w_op = "reset" /\ w_pc = "idle"
        /\ ovpn_keys_familiy_get(w_pkr.cipher_alg) # FamilyOf(ops)) =>
          /\ w_ret # "OK"
          /\ UnchangedSinceCall

\* a reset with an AES-CBC key has been rejected on a state bound to AEAD
\* that has a key installed
C5_Witness ==
    /\ w_op = "reset" /\ w_pc = "idle"
    /\ w_pkr.cipher_alg = "AES_CBC"
    /\ w_ret = "ERR_NEW"
    /\ ops = "aead_ops"
    /\ InstalledKs # {}

DeleteSwapStep == w_pc = "idle" /\ w_pc' = "delete_put"
DeletePutStep == w_pc = "delete_put" /\ w_pc' = "idle"

\* C13: delete_slot(s) changes only slot s.  Its replace empties slot s and
\* leaves the other slot, ops and every key slot object alone; its put then
\* drops the state's reference on the key slot that was in s exactly once and
\* touches nothing else.  On a slot already empty, or on a slot value that is
\* neither primary nor secondary, nothing changes and nothing is released.
C13_DeleteFrame ==
    [][/\ DeleteSwapStep =>
             /\ ops' = ops /\ ks' = ks /\ rcu_wait' = rcu_wait
             /\ CASE w_pkr'.slot = "PRIMARY" ->
                       /\ primary' = NULL /\ secondary' = secondary
                       /\ w_old' = primary
                  [] w_pkr'.slot = "SECONDARY" ->
                       /\ secondary' = NULL /\ primary' = primary
                       /\ w_old' = secondary
                  [] OTHER ->
                       /\ primary' = primary /\ secondary' = secondary
                       /\ w_old' = NULL
       /\ DeletePutStep =>
             /\ primary' = primary /\ secondary' = secondary /\ ops' = ops
             /\ \A id \in KeyIds :
                   IF id = w_old
                   THEN /\ ks[id].state = "live"
                        /\ ks'[id].refcount = ks[id].refcount - 1
                        /\ ks'[id].refcount >= 0
                   ELSE ks'[id] = ks[id] /\ rcu_wait'[id] = rcu_wait[id]]_vars

\* delete_slot(SECONDARY) has returned on a state that had both slots
\* filled: the secondary slot is empty, its key slot is scheduled for
\* reclamation and the primary one is still installed
C13_Witness ==
    /\ w_op = "delete" /\ w_pc = "idle"
    /\ w_pkr.slot = "SECONDARY"
    /\ secondary = NULL
    /\ primary # NULL /\ ks[primary].state = "live"
    /\ \E id \in KeyIds : ks[id].state = "rcu" /\ ks[id].refcount = 0

ReaderStep(r) == r_pc'[r] # r_pc[r]

\* C14: encap_overhead depends on the primary slot only.  The step that
\* reads the slot yields the no-key error exactly when primary is empty,
\* whatever secondary holds, and otherwise goes on with the key slot primary
\* holds, whose overhead it then returns; no step of encap_overhead changes
\* primary, secondary, ops or a key slot object.
C14_OverheadPrimaryOnly ==
    [][\A r \in Readers :
          ReaderStep(r) =>
             /\ primary' = primary /\ secondary' = secondary /\ ops' = ops
             /\ ks' = ks
             /\ ReadsPrimary(r) =>
                   /\ r_ks'[r] = primary
                   /\ (r_ret'[r] = "ENOENT") <=> (primary = NULL)
                   /\ (r_pc'[r] = "deref") <=> (primary # NULL)
             /\ (r_pc[r] = "deref") =>
                   /\ r_ks'[r] = r_ks[r]
                   /\ r_ret'[r] = "overhead"]_vars

\* encap_overhead is returning the no-key error while the secondary slot
\* holds a key
C14_Witness ==
    \E r \in Readers :
        /\ r_pc[r] = "unlock"
        /\ r_ret[r] = "ENOENT"
        /\ primary = NULL
        /\ secondary # NULL

\* C18: remote_peer_id is written before the new key slot is published.
\* The step of reset that publishes the new key slot finds its
\* remote_peer_id equal to the one the call was given; every installed key
\* slot, and every key slot a reader has obtained, has its remote_peer_id
\* set; and the field of a key slot is not written again once it is set.
C18_PeerIdBeforePublish ==
    [][/\ \A id \in KeyIds :
             (id \in {primary', secondary'} /\ id \notin {primary, secondary}) =>
                 /\ ks[id].remote_peer_id = w_pkr.remote_peer_id
                 /\ ks[id].remote_peer_id \in PeerIds
       /\ \A id \in InstalledKs :
             /\ ks[id].remote_peer_id \in PeerIds
             /\ ks'[id].state = "live" =>
                   ks'[id].remote_peer_id = ks[id].remote_peer_id
       /\ \A r \in Readers :
             r_pc'[r] = "deref" => ks'[r_ks'[r]].remote_peer_id \in PeerIds]_vars

\* a reader has obtained the key slot a reset has just published
C18_Witness ==
    \E r \in Readers :
        /\ r_pc[r] = "deref"
        /\ w_op = "reset" /\ w_pc = "reset_put"
        /\ r_ks[r] = w_new
        /\ ks[w_new].remote_peer_id = w_pkr.remote_peer_id

\* the key slots the control path holds in a local of the call in progress
WriterLocals == {w_new, w_old} \ {NULL}

\* C20: key slot reference balance inside the crypto state.  A key slot
\* built by reset carries the state's one reference for as long as it is
\* installed or in a local of the call in progress, and not after: the count
\* is 1 then and 0 afterwards, never negative, so the reference is dropped
\* once and only once.  Between calls no key slot keeps a reference without
\* being installed, and after release both slots are empty and no key slot
\* keeps a reference.
C20_KeySlotRefBalance ==
    /\ \A id \in KeyIds :
          /\ ks[id].refcount \in {0, 1}
          /\ ks[id].state = "live" <=> ks[id].refcount = 1
          /\ ks[id].state = "live" => id \in InstalledKs \cup WriterLocals
          /\ id \in InstalledKs => ks[id].state = "live"
    /\ (primary # NULL /\ secondary # NULL) => primary # secondary
    /\ w_pc = "idle" =>
          \A id \in KeyIds : ks[id].state = "live" => id \in InstalledKs
    /\ w_pc = "released" =>
          /\ primary = NULL /\ secondary = NULL
          /\ \A id \in KeyIds : ks[id].state # "live"

\* the state has been released after every key slot object was built, one
\* of them replaced by a later reset
C20_Witness ==
    /\ w_pc = "released"
    /\ w_snap = NoSnapshot
    /\ \A id \in KeyIds : ks[id].state \in {"rcu", "destroyed"}
    /\ \E id \in KeyIds : ks[id].state = "destroyed"

\* ============================================================== the peer

CryptoUnchanged == UNCHANGED cryptoVars
NewUnchanged == UNCHANGED newVars
QueueUnchanged == UNCHANGED queueVars

\* the peer's memory is valid and its refcount has not gone below zero;
\* nothing is modelled past either of these fatal conditions
PeerUsable == p_state # "released" /\ refcount >= 0

\* the read-side sections in progress: ovpn_peer_get between its lock and
\* unlock, and the control path inside ovpn_peer_set_keepalive ("peer is
\* generally held by RCU lock")
PeerSections ==
    {g \in Getters : g_pc[g] \in {"locked", "unlock"}}
        \cup (IF c_pc # "idle" THEN {Ctl} ELSE {})

\* ovpn_peer_release_kref: call_rcu(&peer->rcu, ovpn_peer_release_rcu)
ovpn_peer_release_kref ==
    /\ p_state' = "rcu"
    /\ p_wait' = PeerSections

\* ovpn_peer_put: kref_put(&peer->refcount, ovpn_peer_release_kref):
\* decrement; on zero, schedule the deferred release
ovpn_peer_put ==
    /\ refcount' = refcount - 1
    /\ IF refcount = 1
       THEN ovpn_peer_release_kref
       ELSE UNCHANGED <<p_state, p_wait>>

\* ovpn_peer_hold: increment unless the count is zero; its result
ovpn_peer_hold == refcount # 0

\* ovpn_timer_schedule(t, lock), given the timer's period and whether it is
\* pending: a period of zero disarms, any other period (re)arms.  The
\* result is false exactly when the timer was not pending and now is.
TimerScheduleArmed(period, armed) == period # 0
TimerScheduleResult(period, armed) == IF period = 0 THEN TRUE ELSE armed

\* ovpn_peer_timer_schedule, line 195, with the negation dropped
RcDeltaNegated(result, rcdelta) == IF result THEN rcdelta + 1 ELSE rcdelta

\* ovpn_peer_timer_schedule, lines 195-196
RcDelta(result, rcdelta) == IF ~result THEN rcdelta + 1 ELSE rcdelta

KaGhostsUnchanged == UNCHANGED <<ka_clean, ka_same, ka_delta, ka_expect>>

\* the change of refcount that scheduling a timer calls for: one more for a
\* timer newly armed, one less for an armed timer that is disarmed
ExpectedDelta(period, armed) ==
    IF period # 0 /\ ~armed THEN 1
    ELSE IF period = 0 /\ armed THEN -1
    ELSE 0

\* --------------------------------------------------- data path: peer_get

\* ovpn_peer_get, lines 24-25: rcu_read_lock; rcu_dereference(ovpn->peer)
GetDeref(g) ==
    /\ g_pc[g] = "idle"
    /\ g_pc' = [g_pc EXCEPT ![g] = "locked"]
    /\ g_peer' = [g_peer EXCEPT ![g] = tun_peer]
    /\ UNCHANGED <<tun_peer, refcount, halt, p_state, p_wait, release_runs,
                   t_period, t_armed, h_pc, c_pc, c_args, c_rcdelta,
                   timer_refs, d_puts>>
    /\ KaGhostsUnchanged
    /\ CryptoUnchanged
    /\ NewUnchanged
    /\ QueueUnchanged

\* ovpn_peer_get that returns the peer whether or not the hold succeeded
GetHoldIgnoresResult(g) ==
    /\ g_pc[g] = "locked"
    /\ refcount >= 0
    /\ IF g_peer[g] = NULL
       THEN /\ g_pc' = [g_pc EXCEPT ![g] = "unlock"]
            /\ UNCHANGED <<g_peer, refcount>>
       ELSE IF p_state = "released"
       THEN /\ g_pc' = [g_pc EXCEPT ![g] = "use_after_free"]
            /\ UNCHANGED <<g_peer, refcount>>
       ELSE /\ g_pc' = [g_pc EXCEPT ![g] = "unlock"]
            /\ refcount' = IF ovpn_peer_hold THEN refcount + 1 ELSE refcount
            /\ UNCHANGED g_peer
    /\ UNCHANGED <<tun_peer, halt, p_state, p_wait, release_runs,
                   t_period, t_armed, h_pc, c_pc, c_args, c_rcdelta,
                   timer_refs, d_puts>>
    /\ KaGhostsUnchanged
    /\ CryptoUnchanged
    /\ NewUnchanged
    /\ QueueUnchanged

\* ovpn_peer_get, lines 26-27: if (peer && !ovpn_peer_hold(peer)) peer = NULL.
\* A pointer to a peer that has been released is a dangling one.
GetHold(g) ==
    /\ g_pc[g] = "locked"
    /\ refcount >= 0
    /\ IF g_peer[g] = NULL
       THEN /\ g_pc' = [g_pc EXCEPT ![g] = "unlock"]
            /\ UNCHANGED <<g_peer, refcount>>
       ELSE IF p_state = "released"
       THEN /\ g_pc' = [g_pc EXCEPT ![g] = "use_after_free"]
            /\ UNCHANGED <<g_peer, refcount>>
       ELSE IF ovpn_peer_hold
       THEN /\ g_pc' = [g_pc EXCEPT ![g] = "unlock"]
            /\ refcount' = refcount + 1
            /\ UNCHANGED g_peer
       ELSE /\ g_pc' = [g_pc EXCEPT ![g] = "unlock"]
            /\ g_peer' = [g_peer EXCEPT ![g] = NULL]
            /\ UNCHANGED refcount
    /\ UNCHANGED <<tun_peer, halt, p_state, p_wait, release_runs,
                   t_period, t_armed, h_pc, c_pc, c_args, c_rcdelta,
                   timer_refs, d_puts>>
    /\ KaGhostsUnchanged
    /\ CryptoUnchanged
    /\ NewUnchanged
    /\ QueueUnchanged

\* ovpn_peer_get, lines 28-30: rcu_read_unlock; return peer
GetUnlock(g) ==
    /\ g_pc[g] = "unlock"
    /\ g_pc' = [g_pc EXCEPT ![g] = IF g_peer[g] = NULL THEN "idle" ELSE "held"]
    /\ p_wait' = p_wait \ {g}
    /\ UNCHANGED <<tun_peer, refcount, halt, p_state, release_runs, g_peer,
                   t_period, t_armed, h_pc, c_pc, c_args, c_rcdelta,
                   timer_refs, d_puts>>
    /\ KaGhostsUnchanged
    /\ CryptoUnchanged
    /\ NewUnchanged
    /\ QueueUnchanged

\* the data path is done with its packet and puts the handle it was given
HandlePut(g) ==
    /\ g_pc[g] = "held"
    /\ PeerUsable
    /\ ovpn_peer_put
    /\ g_pc' = [g_pc EXCEPT ![g] = "idle"]
    /\ g_peer' = [g_peer EXCEPT ![g] = NULL]
    /\ UNCHANGED <<tun_peer, halt, release_runs, t_period, t_armed, h_pc,
                   c_pc, c_args, c_rcdelta, timer_refs, d_puts>>
    /\ KaGhostsUnchanged
    /\ CryptoUnchanged
    /\ NewUnchanged
    /\ QueueUnchanged

\* ------------------------------------------------ control path: teardown

\* the tunnel swaps its peer pointer to null before it deletes the peer
TunnelUnpublish ==
    /\ c_pc = "idle"
    /\ tun_peer # NULL
    /\ tun_peer' = NULL
    /\ UNCHANGED <<refcount, halt, p_state, p_wait, release_runs, g_pc, g_peer,
                   t_period, t_armed, h_pc, c_pc, c_args, c_rcdelta,
                   timer_refs, d_puts>>
    /\ KaGhostsUnchanged
    /\ CryptoUnchanged
    /\ NewUnchanged
    /\ QueueUnchanged

\* ovpn_peer_delete without the test of halt
ovpn_peer_delete_unguarded ==
    /\ c_pc = "idle"
    /\ tun_peer = NULL
    /\ PeerUsable
    /\ halt' = TRUE
    /\ ovpn_peer_put
    /\ d_puts' = d_puts + 1
    /\ UNCHANGED <<tun_peer, release_runs, g_pc, g_peer, t_period, t_armed,
                   h_pc, c_pc, c_args, c_rcdelta, timer_refs>>
    /\ KaGhostsUnchanged
    /\ CryptoUnchanged
    /\ NewUnchanged
    /\ QueueUnchanged

\* ovpn_peer_delete, called with the config mutex held
ovpn_peer_delete ==
    /\ c_pc = "idle"
    /\ tun_peer = NULL
    /\ PeerUsable
    /\ IF halt
       THEN UNCHANGED <<halt, refcount, p_state, p_wait, d_puts>>
       ELSE /\ halt' = TRUE
            /\ ovpn_peer_put
            /\ d_puts' = d_puts + 1
    /\ UNCHANGED <<tun_peer, release_runs, g_pc, g_peer, t_period, t_armed,
                   h_pc, c_pc, c_args, c_rcdelta, timer_refs>>
    /\ KaGhostsUnchanged
    /\ CryptoUnchanged
    /\ NewUnchanged
    /\ QueueUnchanged

ArmedTimers == {t \in Timers : t_armed[t]}

\* ovpn_peer_release_rcu, once the grace period has elapsed:
\* ovpn_crypto_state_release, then ovpn_peer_release.  Its
\* ovpn_peer_timer_delete_all puts the peer once for every timer that
\* ovpn_timer_delete finds pending; its ptr_ring_cleanup empties both rings
\* (after a WARN_ON for a ring that is not empty).
ovpn_peer_release_rcu ==
    /\ p_state = "rcu"
    /\ p_wait = {}
    /\ refcount >= 0
    /\ t_armed' = [t \in Timers |-> FALSE]
    /\ refcount' = refcount - Cardinality(ArmedTimers)
    /\ timer_refs' = timer_refs - Cardinality(ArmedTimers)
    /\ p_state' = "released"
    /\ release_runs' = release_runs + 1
    /\ rings' = [q \in Rings |-> 0]
    /\ UNCHANGED <<tun_peer, halt, p_wait, g_pc, g_peer, t_period, h_pc,
                   c_pc, c_args, c_rcdelta, d_puts, wk_pc, wk_popped>>
    /\ KaGhostsUnchanged
    /\ CryptoUnchanged
    /\ NewUnchanged

\* ------------------------------------------------------ keepalive timers

\* ovpn_peer_set_keepalive, lines 254-255 up to the ovpn_timer_schedule
\* inside ovpn_peer_timer_schedule (line 195), which arms or disarms the
\* xmit timer under peer->lock.  Calls are made only while the references
\* they may take keep refcount within MaxRefs.
SetKeepaliveXmit ==
    \E ping \in Periods, timeout \in Periods :
        /\ c_pc = "idle"
        /\ tun_peer # NULL
        /\ PeerUsable
        /\ refcount + Cardinality(Timers) <= MaxRefs
        /\ c_args' = <<ping, timeout>>
        /\ t_period' = [t_period EXCEPT !["xmit"] = ping]
        /\ t_armed' = [t_armed EXCEPT
                          !["xmit"] = TimerScheduleArmed(ping, t_armed["xmit"])]
        /\ c_rcdelta' = RcDelta(TimerScheduleResult(ping, t_armed["xmit"]), 0)
        /\ c_pc' = "xmit_switch"
        /\ ka_same' = (ka_clean /\ c_args = <<ping, timeout>>)
        /\ ka_clean' = TRUE
        /\ ka_delta' = 0
        /\ ka_expect' = ExpectedDelta(ping, t_armed["xmit"])
        /\ UNCHANGED <<tun_peer, refcount, halt, p_state, p_wait, release_runs,
                       g_pc, g_peer, h_pc, timer_refs, d_puts>>
        /\ CryptoUnchanged
        /\ NewUnchanged
        /\ QueueUnchanged

\* ovpn_peer_timer_schedule, lines 197-209, on the control path for timer t;
\* when set_keepalive returns after it (next_pc is "idle") the control path
\* leaves its read-side section
KaSwitch(t, next_pc) ==
    /\ PeerUsable
    /\ CASE c_rcdelta = 1 ->
              IF ovpn_peer_hold
              THEN /\ refcount' = refcount + 1
                   /\ timer_refs' = timer_refs + 1
                   /\ ka_delta' = ka_delta + 1
                   /\ UNCHANGED <<p_state, t_armed>>
              ELSE /\ t_armed' = [t_armed EXCEPT ![t] = FALSE]
                   /\ UNCHANGED <<refcount, p_state, timer_refs, ka_delta>>
         [] c_rcdelta = -1 ->
              /\ refcount' = refcount - 1
              /\ p_state' = IF refcount = 1 THEN "rcu" ELSE p_state
              /\ timer_refs' = timer_refs - 1
              /\ ka_delta' = ka_delta - 1
              /\ UNCHANGED t_armed
         [] OTHER ->
              UNCHANGED <<refcount, p_state, t_armed, timer_refs, ka_delta>>
    /\ p_wait' = LET w == IF c_rcdelta = -1 /\ refcount = 1
                          THEN PeerSections ELSE p_wait
                 IN IF next_pc = "idle" THEN w \ {Ctl} ELSE w
    /\ c_pc' = next_pc
    /\ c_rcdelta' = 0
    /\ UNCHANGED <<tun_peer, halt, release_runs, g_pc, g_peer, t_period, h_pc,
                   c_args, d_puts, ka_clean, ka_same, ka_expect>>
    /\ CryptoUnchanged
    /\ NewUnchanged
    /\ QueueUnchanged

KaXmitSwitch ==
    /\ c_pc = "xmit_switch"
    /\ KaSwitch("xmit", "expire_sched")

\* ovpn_peer_set_keepalive, lines 257-258 up to the ovpn_timer_schedule
SetKeepaliveExpire ==
    /\ c_pc = "expire_sched"
    /\ PeerUsable
    /\ t_period' = [t_period EXCEPT !["expire"] = c_args[2]]
    /\ t_armed' = [t_armed EXCEPT
                      !["expire"] = TimerScheduleArmed(c_args[2], t_armed["expire"])]
    /\ c_rcdelta' = RcDelta(TimerScheduleResult(c_args[2], t_armed["expire"]), 0)
    /\ c_pc' = "expire_switch"
    /\ ka_expect' = ka_expect + ExpectedDelta(c_args[2], t_armed["expire"])
    /\ UNCHANGED <<tun_peer, refcount, halt, p_state, p_wait, release_runs,
                   g_pc, g_peer, h_pc, c_args, timer_refs, d_puts,
                   ka_clean, ka_same, ka_delta>>
    /\ CryptoUnchanged
    /\ NewUnchanged
    /\ QueueUnchanged

\* the second ovpn_peer_timer_schedule, then the return of set_keepalive:
\* the control path leaves its read-side section
KaExpireSwitch ==
    /\ c_pc = "expire_switch"
    /\ KaSwitch("expire", "idle")

\* a pending timer expires: it is no longer pending and its callback runs
TimerFire(t) ==
    /\ PeerUsable
    /\ t_armed[t]
    /\ h_pc[t] = "idle"
    /\ t_armed' = [t_armed EXCEPT ![t] = FALSE]
    /\ h_pc' = [h_pc EXCEPT ![t] = "fired"]
    /\ ka_clean' = FALSE
    /\ ka_same' = FALSE
    /\ UNCHANGED <<tun_peer, refcount, halt, p_state, p_wait, release_runs,
                   g_pc, g_peer, t_period, c_pc, c_args, c_rcdelta,
                   timer_refs, d_puts, ka_delta, ka_expect>>
    /\ CryptoUnchanged
    /\ NewUnchanged
    /\ QueueUnchanged

\* ovpn_peer_keepalive_xmit_handler, lines 224-226 up to the
\* ovpn_timer_schedule inside ovpn_peer_timer_schedule(peer, t, -1)
XmitHandlerSchedule ==
    /\ h_pc["xmit"] = "fired"
    /\ PeerUsable
    /\ t_armed' = [t_armed EXCEPT
                      !["xmit"] = TimerScheduleArmed(t_period["xmit"], t_armed["xmit"])]
    /\ h_pc' = [h_pc EXCEPT !["xmit"] =
                   IF RcDelta(TimerScheduleResult(t_period["xmit"],
                                                  t_armed["xmit"]), -1) = 0
                   THEN "idle" ELSE "put"]
    /\ UNCHANGED <<tun_peer, refcount, halt, p_state, p_wait, release_runs,
                   g_pc, g_peer, t_period, c_pc, c_args, c_rcdelta,
                   timer_refs, d_puts>>
    /\ KaGhostsUnchanged
    /\ CryptoUnchanged
    /\ NewUnchanged
    /\ QueueUnchanged

\* ovpn_peer_timer_schedule, lines 204-206, in the xmit callback
XmitHandlerPut ==
    /\ h_pc["xmit"] = "put"
    /\ PeerUsable
    /\ ovpn_peer_put
    /\ timer_refs' = timer_refs - 1
    /\ h_pc' = [h_pc EXCEPT !["xmit"] = "idle"]
    /\ UNCHANGED <<tun_peer, halt, release_runs, g_pc, g_peer, t_period,
                   t_armed, c_pc, c_args, c_rcdelta, d_puts>>
    /\ KaGhostsUnchanged
    /\ CryptoUnchanged
    /\ NewUnchanged
    /\ QueueUnchanged

\* ovpn_peer_keepalive_expire_handler
ExpireHandler ==
    /\ h_pc["expire"] = "fired"
    /\ PeerUsable
    /\ ovpn_peer_put
    /\ timer_refs' = timer_refs - 1
    /\ h_pc' = [h_pc EXCEPT !["expire"] = "idle"]
    /\ UNCHANGED <<tun_peer, halt, release_runs, g_pc, g_peer, t_period,
                   t_armed, c_pc, c_args, c_rcdelta, d_puts>>
    /\ KaGhostsUnchanged
    /\ CryptoUnchanged
    /\ NewUnchanged
    /\ QueueUnchanged

\* the peer with its data-path lookups and its teardown, no keepalive
NextPeerRef ==
    \/ \E g \in Getters : GetDeref(g)
    \/ \E g \in Getters : GetHold(g)
    \/ \E g \in Getters : GetUnlock(g)
    \/ \E g \in Getters : HandlePut(g)
    \/ TunnelUnpublish
    \/ ovpn_peer_delete
    \/ ovpn_peer_release_rcu

SpecPeerRef == Init /\ [][NextPeerRef]_vars

\* the peer with its keepalive timers as well
Next ==
    \/ \E g \in Getters : GetDeref(g)
    \/ \E g \in Getters : GetHold(g)
    \/ \E g \in Getters : GetUnlock(g)
    \/ \E g \in Getters : HandlePut(g)
    \/ TunnelUnpublish
    \/ ovpn_peer_delete
    \/ ovpn_peer_release_rcu
    \/ SetKeepaliveXmit
    \/ KaXmitSwitch
    \/ SetKeepaliveExpire
    \/ KaExpireSwitch
    \/ \E t \in Timers : TimerFire(t)
    \/ XmitHandlerSchedule
    \/ XmitHandlerPut
    \/ ExpireHandler

Spec == Init /\ [][Next]_vars

\* ------------------------------------------------------ peer construction

PeerUnchanged == UNCHANGED peerVars

\* the steps of ovpn_peer_new that can fail
PeerNewFailures == {"none", "kmalloc", "tx_ring", "rx_ring"}

\* ovpn_peer_new, its return value: ERR_PTR(-ENOMEM) when kmalloc fails
\* (line 42), NULL when a ptr_ring_init fails (lines 57-66, 78-82), the peer
\* otherwise (line 77)
PeerNewResult(fail) ==
    CASE fail = "kmalloc" -> "ERR_ENOMEM"
      [] fail \in {"tx_ring", "rx_ring"} -> "NULL"
      [] OTHER -> "peer"

\* what the new peer object holds when ovpn_peer_new returns: on the error
\* paths the tx ring is cleaned up and the peer is freed (lines 78-82)
PeerNewAllocs(fail) ==
    IF fail = "none" THEN {"peer", "tx_ring", "rx_ring", "dev"} ELSE {}

\* IS_ERR(ptr): true of an ERR_PTR value, false of NULL and of an object
IS_ERR(ptr) == ptr = "ERR_ENOMEM"

\* ovpn_peer_new_with_sockaddr, line 165: peer = ovpn_peer_new(ovpn)
ovpn_peer_new ==
    \E fail \in PeerNewFailures :
        /\ n_pc = "idle"
        /\ n_fail' = fail
        /\ n_peer' = PeerNewResult(fail)
        /\ n_allocs' = PeerNewAllocs(fail)
        /\ n_ret' = "none"
        /\ n_pc' = "new_check"
        /\ PeerUnchanged
        /\ CryptoUnchanged
        /\ QueueUnchanged

\* ovpn_peer_new_with_sockaddr, lines 166-167: if (IS_ERR(peer)) return peer
NewWithSockaddrCheck ==
    /\ n_pc = "new_check"
    /\ IF IS_ERR(n_peer)
       THEN /\ n_ret' = n_peer
            /\ n_pc' = "idle"
       ELSE /\ n_pc' = "reset_sockaddr"
            /\ UNCHANGED n_ret
    /\ UNCHANGED <<n_peer, n_fail, n_allocs>>
    /\ PeerUnchanged
    /\ CryptoUnchanged
    /\ QueueUnchanged

\* ovpn_peer_new_with_sockaddr, lines 170-176, with ovpn_peer_reset_sockaddr
\* (lines 86-100).  When the bind cannot be built the peer is released
\* (line 172) and the error returned; otherwise the bind is set on the peer
\* (line 97) and the peer returned.  Either way the peer is dereferenced: a
\* null peer is a null pointer dereference in the kernel, an oops.
NewWithSockaddrBind ==
    \E bind_fails \in BOOLEAN :
        /\ n_pc = "reset_sockaddr"
        /\ IF n_peer = "NULL"
           THEN /\ n_pc' = "oops"
                /\ UNCHANGED <<n_allocs, n_ret>>
           ELSE IF bind_fails
           THEN /\ n_allocs' = {}
                /\ n_ret' = "ERR_BIND"
                /\ n_pc' = "idle"
           ELSE /\ n_ret' = "peer"
                /\ n_pc' = "idle"
                /\ UNCHANGED n_allocs
        /\ UNCHANGED <<n_peer, n_fail>>
        /\ PeerUnchanged
        /\ CryptoUnchanged
        /\ QueueUnchanged

\* the construction of a further peer next to the data path and the
\* teardown of the current one
NextPeerNew ==
    \/ ovpn_peer_new
    \/ NewWithSockaddrCheck
    \/ NewWithSockaddrBind
    \/ \E g \in Getters : GetDeref(g)
    \/ \E g \in Getters : GetHold(g)
    \/ \E g \in Getters : GetUnlock(g)
    \/ \E g \in Getters : HandlePut(g)
    \/ TunnelUnpublish
    \/ ovpn_peer_delete
    \/ ovpn_peer_release_rcu

SpecPeerNew == Init /\ [][NextPeerNew]_vars

\* ------------------------------------------------- packet queues, workers

TimerVarsUnchanged ==
    UNCHANGED <<t_period, t_armed, h_pc, c_pc, c_args, c_rcdelta, timer_refs>>

\* the data path, holding a handle, queues a packet on ring q and dispatches
\* the ring's worker; a worker not yet running takes a reference of its own
\* for the job
Enqueue(g, q) ==
    /\ g_pc[g] = "held"
    /\ PeerUsable
    /\ rings[q] < MaxQueue
    /\ rings' = [rings EXCEPT ![q] = @ + 1]
    /\ IF wk_pc[q] = "idle" /\ ovpn_peer_hold
       THEN /\ wk_pc' = [wk_pc EXCEPT ![q] = "running"]
            /\ refcount' = refcount + 1
       ELSE UNCHANGED <<wk_pc, refcount>>
    /\ UNCHANGED <<tun_peer, halt, p_state, p_wait, release_runs, g_pc, g_peer,
                   d_puts, wk_popped>>
    /\ TimerVarsUnchanged
    /\ KaGhostsUnchanged
    /\ CryptoUnchanged
    /\ NewUnchanged

\* the worker of ring q takes the next packet off the ring and handles it
\* (or, the peer being halted, drops it)
WorkerPop(q) ==
    /\ wk_pc[q] = "running"
    /\ PeerUsable
    /\ rings[q] > 0
    /\ rings' = [rings EXCEPT ![q] = @ - 1]
    /\ wk_popped' = wk_popped \cup {q}
    /\ UNCHANGED <<tun_peer, refcount, halt, p_state, p_wait, release_runs,
                   g_pc, g_peer, d_puts, wk_pc>>
    /\ TimerVarsUnchanged
    /\ KaGhostsUnchanged
    /\ CryptoUnchanged
    /\ NewUnchanged

\* the worker of ring q finds the ring empty: the job ends and puts its
\* reference
WorkerDone(q) ==
    /\ wk_pc[q] = "running"
    /\ PeerUsable
    /\ rings[q] = 0
    /\ ovpn_peer_put
    /\ wk_pc' = [wk_pc EXCEPT ![q] = "idle"]
    /\ UNCHANGED <<tun_peer, halt, release_runs, g_pc, g_peer, d_puts,
                   rings, wk_popped>>
    /\ TimerVarsUnchanged
    /\ KaGhostsUnchanged
    /\ CryptoUnchanged
    /\ NewUnchanged

\* the peer with its data path, its queues and workers, and its teardown
NextPeerQueue ==
    \/ \E g \in Getters : GetDeref(g)
    \/ \E g \in Getters : GetHold(g)
    \/ \E g \in Getters : GetUnlock(g)
    \/ \E g \in Getters : HandlePut(g)
    \/ \E g \in Getters, q \in Rings : Enqueue(g, q)
    \/ \E q \in Rings : WorkerPop(q)
    \/ \E q \in Rings : WorkerDone(q)
    \/ TunnelUnpublish
    \/ ovpn_peer_delete
    \/ ovpn_peer_release_rcu

SpecPeerQueue == Init /\ [][NextPeerQueue]_vars

\* what the scheduling guarantees: a data-path lookup in progress runs to
\* its end and puts the handle it got, a set_keepalive call in progress
\* returns, a pending timer fires and its callback runs to its end, and the
\* deferred release runs once its grace period has elapsed.  Nothing obliges
\* the data path to start a lookup or the control path to start a call.
Fairness ==
    /\ \A g \in Getters : WF_vars(GetHold(g))
    /\ \A g \in Getters : WF_vars(GetUnlock(g))
    /\ \A g \in Getters : WF_vars(HandlePut(g))
    /\ WF_vars(KaXmitSwitch)
    /\ WF_vars(SetKeepaliveExpire)
    /\ WF_vars(KaExpireSwitch)
    /\ \A t \in Timers : WF_vars(TimerFire(t))
    /\ WF_vars(XmitHandlerSchedule)
    /\ WF_vars(XmitHandlerPut)
    /\ WF_vars(ExpireHandler)
    /\ WF_vars(ovpn_peer_release_rcu)

SpecLive == Init /\ [][Next]_vars /\ Fairness

\* -------------------------------------------------------- the peer: claims

Holds(g) == g_pc[g] = "locked" /\ g_pc'[g] # "locked"

\* C6: peer_get never resurrects a dying peer.  Over the interleavings of
\* peer_get with peer_put and peer_delete, the step of peer_get that tries
\* the hold either yields none and leaves refcount alone, or yields the peer
\* with refcount non-zero before and one higher after, never a released
\* peer; and refcount never goes from zero to a positive value.
C6_NoResurrection ==
    [][/\ ~(refcount = 0 /\ refcount' > 0)
       /\ \A g \in Getters :
             Holds(g) =>
                /\ g_pc'[g] # "use_after_free"
                /\ \/ g_peer'[g] = NULL /\ refcount' = refcount
                   \/ /\ g_peer'[g] = ThePeer
                      /\ p_state = "live"
                      /\ refcount # 0
                      /\ refcount' = refcount + 1]_vars

\* a peer_get that read the peer pointer before the teardown is about to
\* try its hold on a peer whose refcount has reached zero and whose release
\* waits for that reader
C6_Witness ==
    \E g \in Getters :
        /\ g_pc[g] = "locked"
        /\ g_peer[g] = ThePeer
        /\ refcount = 0
        /\ p_state = "rcu"
        /\ g \in p_wait

\* C7 as stated: over any interleaving of peer_get, peer_put, peer_delete,
\* set_keepalive and timer firings the release routine runs at most once,
\* only on a refcount of zero, and refcount never goes below zero.
C7_ReleasedOnce ==
    /\ release_runs <= 1
    /\ refcount >= 0
    /\ p_state # "live" => refcount <= 0
    /\ \A g \in Getters : g_pc[g] # "use_after_free"

\* C8: peer_delete is idempotent.  Over any sequence of peer_delete calls
\* interleaved with peer_get and peer_put, halt once true stays true, halt is
\* true exactly when peer_delete has dropped the owner's reference, and it
\* drops it once only.
C8_DeleteIdempotent ==
    [][/\ halt => halt'
       /\ d_puts' <= 1
       /\ halt' <=> d_puts' = 1
       /\ (halt /\ d_puts' # d_puts) => FALSE]_vars

\* peer_delete has set halt and dropped the owner's reference while a data
\* path handle keeps the peer alive, so that further calls can follow
C8_Witness ==
    /\ halt
    /\ d_puts = 1
    /\ p_state = "live"
    /\ refcount >= 1
    /\ \E g \in Getters : g_pc[g] = "held"

\* no set_keepalive call and no timer callback is in progress
TimersQuiescent == c_pc = "idle" /\ \A t \in Timers : h_pc[t] = "idle"

\* C9 as stated: whenever no set_keepalive call and no timer callback is in
\* progress, the references held on behalf of keepalive timers are as many
\* as the timers that are armed.
C9_TimerRefBalance ==
    (TimersQuiescent /\ PeerUsable) =>
        timer_refs = Cardinality(ArmedTimers)

\* C10: a set_keepalive call that repeats the values of the call before it,
\* no timer having fired since that call began, has a net refcount change
\* of zero.
C10_KeepaliveIdempotent == ka_same => ka_delta = 0

\* a repeated set_keepalive(1, 1) has returned with both timers armed
C10_Witness ==
    /\ ka_same
    /\ c_pc = "idle"
    /\ c_args = <<1, 1>>
    /\ ArmedTimers = Timers
    /\ refcount >= 3

\* the arming path has armed timer t (ovpn_timer_schedule, line 195) and has
\* not yet taken the reference the timer owns (ovpn_peer_hold, line 201)
HoldPending(t) ==
    /\ c_rcdelta = 1
    /\ c_pc = (IF t = "xmit" THEN "xmit_switch" ELSE "expire_switch")

\* the callback of timer t puts the reference the timer owns
HandlerPutStep(t) ==
    /\ h_pc[t] # "idle"
    /\ h_pc'[t] = "idle"
    /\ refcount' = refcount - 1

\* C15 as stated: arming a keepalive timer and taking its reference are one
\* atomic step with respect to the timer firing.  The callback of a timer
\* never puts the timer's reference while the path that armed the timer has
\* still to take that reference.
C15_ArmHoldAtomic ==
    [][\A t \in Timers : HandlerPutStep(t) => ~HoldPending(t)]_vars

ReleaseStep == p_state # "released" /\ p_state' = "released"

\* C17 as stated: when the release routine runs no keepalive timer is
\* pending, so that its ovpn_peer_timer_delete_all puts nothing and the
\* refcount, already zero, is not decremented again.
C17_NoTimerAtRelease ==
    [][ReleaseStep =>
          /\ ArmedTimers = {}
          /\ refcount = 0
          /\ refcount' = refcount]_vars

\* set_keepalive has returned and no timer has fired since the call began
KeepaliveReturned == c_pc = "idle" /\ ka_clean

\* C16 as stated: a period of zero disarms.  When set_keepalive has
\* returned, no timer having fired since the call began, every timer whose
\* period is zero is disarmed, and the refcount has changed by what the
\* call's arming and disarming calls for: one less for each armed timer the
\* call disarmed, nothing for a timer that was not armed.
C16_ZeroDisarms ==
    KeepaliveReturned =>
        /\ \A t \in Timers : t_period[t] = 0 => ~t_armed[t]
        /\ ka_delta = ka_expect

\* C11 as stated: halt leads to release.  Once peer_delete has set halt the
\* peer is eventually released, every handle in flight being put and every
\* pending timer firing in the end.
C11_HaltLeadsToRelease == halt ~> (p_state = "released")

\* ovpn_peer_new has failed to initialise the tx or the rx ring
QueueInitFailed == n_fail \in {"tx_ring", "rx_ring"}

\* C12 as stated: when the initialisation of a queue has failed, what
\* ovpn_peer_new allocated is unwound, and ovpn_peer_new_with_sockaddr goes
\* no further than its test of the result: it returns the out-of-memory
\* error and never reaches the code that binds, uses or releases a peer.
C12_ConstructionFailure ==
    QueueInitFailed =>
        /\ n_allocs = {}
        /\ n_pc \in {"new_check", "idle"}
        /\ n_pc = "idle" => n_ret = "ERR_ENOMEM"

\* C19: queues are empty at release.  Whenever the release routine runs,
\* neither ring holds a packet; and every queued packet is covered by the
\* reference of a running worker.
C19_QueuesEmptyAtRelease ==
    [][/\ ReleaseStep => \A q \in Rings : rings[q] = 0
       /\ \A q \in Rings : rings[q] > 0 => wk_pc[q] = "running"]_vars

\* the peer has been released after peer_delete, both workers having taken
\* packets off their rings
C19_Witness ==
    /\ p_state = "released"
    /\ halt
    /\ wk_popped = Rings
    /\ \A q \in Rings : wk_pc[q] = "idle"

====
